---- MODULE Spec2Model ----
(***************************************************************************)
(* A model of app.py, the CS22301 microlearning portal (a Streamlit       *)
(* script).  One step of the model is one run of the script, started by   *)
(* one widget event of the client, or one tick of the wall clock.         *)
(*                                                                         *)
(* Text is a sequence of one-character strings, so that strip(), lower()  *)
(* and replace() are computed and not assumed.  An optional value is the  *)
(* empty sequence (absent / None) or a one-element sequence.              *)
(***************************************************************************)
EXTENDS Integers, Sequences, FiniteSets

VARIABLES
    session_state,   \* st.session_state: df, student, login_time, timer_started,
                     \* video_done, certificate_ready, certificate_path
    reg_no,          \* value of the "Enter your Registration Number" text input
    admin_checked,   \* value of the "Admin Login" checkbox
    pw,              \* value of the "Password" text input
    shown,           \* the widgets the last run rendered (what the client can act on)
    page,            \* what the last run displayed: messages, warning, download link
    now,             \* datetime.now(), in ticks
    ev,              \* history: the event of the last step
    prePhase,        \* history: the phase before the last step
    lookup,          \* history: the find_student call of the last run, if any
    issue,           \* history: the create_certificate call of the last run, if any
    loaded,          \* history: what the last load_student_file call returned
    login_at,        \* history: the time of the most recent successful login
    other            \* a second client of the same server: its own st.session_state,
                     \* widgets, page and history, while the model follows the first

vars == << session_state, reg_no, admin_checked, pw, shown, page, now,
           ev, prePhase, lookup, issue, loaded, login_at, other >>

----------------------------------------------------------------------------
\* Bounds of the model

MaxNow == 9
TicksPerSec == 2
MaxCellLen == 2
MaxInputLen == 3

\* VIDEO_DURATION, in seconds (the configured value, 600 by default, scaled down)
VIDEO_DURATION == 2

----------------------------------------------------------------------------
\* Optional values

Absent == << >>
PyNone == << >>
Some(v) == << v >>
Get(o, default) == IF o = << >> THEN default ELSE o[1]
DictGet(d, k, default) == IF k \in DOMAIN d THEN d[k] ELSE default

----------------------------------------------------------------------------
\* Text

Whitespace == {" ", "\t"}

LowerChar(c) ==
    CASE c = "A" -> "a"
      [] c = "B" -> "b"
      [] c = "J" -> "j"
      [] c = "Z" -> "z"
      [] OTHER -> c

Lower(s) == [i \in 1..Len(s) |-> LowerChar(s[i])]

RECURSIVE LStrip(_)
LStrip(s) == IF s # << >> /\ Head(s) \in Whitespace THEN LStrip(Tail(s)) ELSE s

RECURSIVE RStrip(_)
RStrip(s) ==
    IF s # << >> /\ s[Len(s)] \in Whitespace
    THEN RStrip(SubSeq(s, 1, Len(s) - 1))
    ELSE s

Strip(s) == RStrip(LStrip(s))

Replace(s, old, new) == [i \in 1..Len(s) |-> IF s[i] = old THEN new ELSE s[i]]

----------------------------------------------------------------------------
\* Configuration

CERT_DIR == << "c", "e", "r", "t", "i", "f", "i", "c", "a", "t", "e", "s" >>
ADMIN_PASSWORD == "secret"
SUBJECT == << "C", "S", " ", "M" >>
DefaultName == << "S", "t", "u", "d", "e", "n", "t" >>

----------------------------------------------------------------------------
\* find_student

NoLowerSeries(df, col) == [i \in 1..Len(df.rows) |-> Strip(df.rows[i][col])]

\* df[col].astype(str).str.strip().str.lower(), for a column of text cells
Series(df, col) == [i \in 1..Len(df.rows) |-> Lower(Strip(df.rows[i][col]))]

\* str(reg_no).strip().lower()
LookupKey(s) == Lower(Strip(s))

\* df[series == reg_no]: the indexes of the rows of the match, in roster order
Match(df, col, key) == {i \in 1..Len(df.rows) : Series(df, col)[i] = key}

SetMin(S) == CHOOSE x \in S : \A y \in S : x <= y

FindRowMajor(df, s) ==
    LET key == LookupKey(s)
        hits == {i \in 1..Len(df.rows) :
                    \E c \in 1..Len(df.columns) : Series(df, df.columns[c])[i] = key}
    IN  IF hits = {} THEN PyNone ELSE Some(df.rows[SetMin(hits)])

find_student(df, s) ==
    LET key == LookupKey(s)
        hits == {c \in 1..Len(df.columns) : Match(df, df.columns[c], key) # {}}
    IN  IF hits = {} THEN PyNone
        ELSE Some(df.rows[SetMin(Match(df, df.columns[SetMin(hits)], key))])

----------------------------------------------------------------------------
\* The rosters the Roster Provider can hand out, and what the client can type

JANE == << "J", "a", "n", "e" >>
BOB == << "B", "o", "b" >>
A1 == << "A", "1" >>
B2 == << "B", "2" >>

\* a roster with the columns the script names
Roster1 ==
    [columns |-> << "Name", "Reg_No" >>,
     rows |-> << [Name |-> JANE, Reg_No |-> A1], [Name |-> BOB, Reg_No |-> B2] >>]

\* a roster whose registration numbers are in a column of another name, without B2
Roster2 ==
    [columns |-> << "Name", "Roll" >>,
     rows |-> << [Name |-> JANE, Roll |-> A1] >>]

Rosters == {Roster1, Roster2}

\* load_student_file returns a non-empty DataFrame, or None (file missing, decrypt
\* or decode failure, empty sheet)
LoadResults == {PyNone} \cup {Some(R) : R \in Rosters}

RegInputs == { << >>, << " ", "a", "1", " " >>, B2, << "Z", "9" >> }
PwInputs == {"", "guess", ADMIN_PASSWORD}

----------------------------------------------------------------------------
\* create_certificate: the arguments it is called with, the path it returns

CertArgs(name, reg, subject) == [name |-> name, reg_no |-> reg, subject |-> subject]

\* os.path.join(CERT_DIR, f"{reg_no}_{subject.replace(' ', '_')}.pdf")
CertPath(reg, subject) ==
    CERT_DIR \o << "/" >> \o reg \o << "_" >> \o Replace(subject, " ", "_")
        \o << ".", "p", "d", "f" >>

----------------------------------------------------------------------------
\* The session's phase, read off st.session_state and the clock

Truthy(o) == Get(o, FALSE)

DurationTicks == VIDEO_DURATION * TicksPerSec

\* (datetime.now() - login_time), in ticks
Elapsed(ss, t) == t - ss.login_time[1]

PhaseOf(ss, t) ==
    IF ~Truthy(ss.timer_started) THEN "Anonymous"
    ELSE IF Truthy(ss.certificate_ready) THEN "Certified"
    ELSE IF Elapsed(ss, t) >= DurationTicks THEN "Eligible"
    ELSE "Watching"

Phase == PhaseOf(session_state, now)

\* the certificate handle of the session: the stored path, while it is exposed
HandleOf(ss) == IF Truthy(ss.certificate_ready) THEN ss.certificate_path ELSE Absent

----------------------------------------------------------------------------
\* One run of the script.  A run is a record r: the session state, the page under
\* construction, the widgets rendered so far, whether the run has ended early
\* (st.stop() or an uncaught exception), and the calls made.

EmptySession ==
    [df |-> Absent, student |-> Absent, login_time |-> Absent,
     timer_started |-> Absent, video_done |-> Absent,
     certificate_ready |-> Absent, certificate_path |-> Absent]

EmptyPage == [msgs |-> {}, warning |-> Absent, link |-> Absent]

StartRun ==
    [ss |-> session_state, page |-> EmptyPage, shown |-> {}, halted |-> FALSE,
     lookup |-> Absent, issue |-> Absent, loaded |-> loaded]

LoadMsg(res) == IF res = PyNone THEN "load_failed" ELSE "loaded"

LoadUntilLoaded(r, loadRes) ==
    IF r.ss.df = Absent \/ r.ss.df = Some(PyNone)
    THEN [r EXCEPT !.ss.df = Some(loadRes), !.loaded = Some(loadRes),
                   !.page.msgs = @ \cup {LoadMsg(loadRes)}]
    ELSE r

\* lines 109-111: load the student file once per session
LoadOnce(r, loadRes) ==
    IF r.ss.df = Absent
    THEN [r EXCEPT !.ss.df = Some(loadRes), !.loaded = Some(loadRes),
                   !.page.msgs = @ \cup {LoadMsg(loadRes)}]
    ELSE r

StopNever(r) == r

\* lines 113-115: df = st.session_state.df; st.stop() when it is None
StopIfNone(r) == IF r.ss.df[1] = PyNone THEN [r EXCEPT !.halted = TRUE] ELSE r

LoginWritesKeepDone(ss, student, t) ==
    [ss EXCEPT !.student = Some(student), !.login_time = Some(t),
               !.timer_started = Some(TRUE), !.certificate_ready = Some(FALSE)]

LoginWritesNoTimer(ss, student, t) ==
    [ss EXCEPT !.student = Some(student), !.login_time = Some(t),
               !.video_done = Some(FALSE), !.certificate_ready = Some(FALSE)]

LoginWritesKeepReady(ss, student, t) ==
    [ss EXCEPT !.student = Some(student), !.login_time = Some(t),
               !.timer_started = Some(TRUE), !.video_done = Some(FALSE)]

\* lines 124-128
LoginWrites(ss, student, t) ==
    [ss EXCEPT !.student = Some(student), !.login_time = Some(t),
               !.timer_started = Some(TRUE), !.video_done = Some(FALSE),
               !.certificate_ready = Some(FALSE)]

LoginOnMiss(r, regv, t) ==
    LET found == find_student(r.ss.df[1][1], regv)
        r1 == [r EXCEPT !.lookup = Some([reg |-> regv, result |-> found])]
    IN  [r1 EXCEPT !.ss = LoginWrites(@, [Name |-> regv], t),
                   !.page.msgs = @ \cup {"welcome"}]

\* lines 119-129: the Login button, clicked with a non-empty registration number
LoginClicked(r, regv, t) ==
    LET found == find_student(r.ss.df[1][1], regv)
        r1 == [r EXCEPT !.lookup = Some([reg |-> regv, result |-> found])]
    IN  IF found = PyNone
        THEN [r1 EXCEPT !.page.msgs = @ \cup {"not_found"}]
        ELSE [r1 EXCEPT !.ss = LoginWrites(@, found[1], t),
                        !.page.msgs = @ \cup {"welcome"}]

LoginSectionAnyInput(r, clicked, regv, t) ==
    IF r.halted THEN r
    ELSE LET r1 == [r EXCEPT !.shown = @ \cup {"reg_no", "login"}]
         IN  IF clicked THEN LoginClicked(r1, regv, t) ELSE r1

\* lines 117-129
LoginSection(r, clicked, regv, t) ==
    IF r.halted THEN r
    ELSE LET r1 == [r EXCEPT !.shown = @ \cup {"reg_no", "login"}]
         IN  IF clicked /\ regv # << >> THEN LoginClicked(r1, regv, t) ELSE r1

----------------------------------------------------------------------------
\* The video, timer and "I have watched the video" section

\* remaining = VIDEO_DURATION - elapsed, in ticks
Remaining(ss, t) == DurationTicks - Elapsed(ss, t)

\* int(remaining): Python's int() truncates towards zero
IntSeconds(ticks) ==
    IF ticks >= 0 THEN ticks \div TicksPerSec ELSE -((-ticks) \div TicksPerSec)

InitKey(o) == IF o = Absent THEN Some(FALSE) ELSE o

TimerStrict(r, t) ==
    LET ss1 == [r.ss EXCEPT !.video_done = InitKey(@)]
    IN  IF Remaining(ss1, t) >= 0
        THEN [r EXCEPT !.ss = ss1, !.page.msgs = @ \cup {"time_remaining"}]
        ELSE [r EXCEPT !.ss = [ss1 EXCEPT !.video_done = Some(TRUE)],
                       !.page.msgs = @ \cup {"completed"}]

TimerOfFirstLogin(r, t) ==
    LET ss1 == [r.ss EXCEPT !.video_done = InitKey(@)]
    IN  IF DurationTicks - t > 0
        THEN [r EXCEPT !.ss = ss1, !.page.msgs = @ \cup {"time_remaining"}]
        ELSE [r EXCEPT !.ss = [ss1 EXCEPT !.video_done = Some(TRUE)],
                       !.page.msgs = @ \cup {"completed"}]

\* lines 140-151: the timer; video_done is stored once the time is up
Timer(r, t) ==
    LET ss1 == [r.ss EXCEPT !.video_done = InitKey(@)]
    IN  IF Remaining(ss1, t) > 0
        THEN [r EXCEPT !.ss = ss1, !.page.msgs = @ \cup {"time_remaining"}]
        ELSE [r EXCEPT !.ss = [ss1 EXCEPT !.video_done = Some(TRUE)],
                       !.page.msgs = @ \cup {"completed"}]

WatchedReadyFirst(r, name, reg, issueOk, t) ==
    IF r.ss.video_done[1]
    THEN LET r1 == [r EXCEPT !.issue = Some(CertArgs(name, reg, SUBJECT)),
                             !.ss.certificate_ready = Some(TRUE)]
         IN  IF issueOk
             THEN [r1 EXCEPT !.ss.certificate_path = Some(CertPath(reg, SUBJECT)),
                             !.page.msgs = @ \cup {"generated"}]
             ELSE [r1 EXCEPT !.halted = TRUE, !.page.msgs = @ \cup {"exception"}]
    ELSE [r EXCEPT !.page.warning = Some(IntSeconds(Remaining(r.ss, t))),
                   !.page.msgs = @ \cup {"warning"}]

\* lines 161-168: the button, clicked.  create_certificate returns the path, or
\* raises (rendering or writing the PDF fails); the script does not catch it, so
\* the run ends there with the exception on the page.
WatchedClicked(r, name, reg, issueOk, t) ==
    IF r.ss.video_done[1]
    THEN LET r1 == [r EXCEPT !.issue = Some(CertArgs(name, reg, SUBJECT))]
         IN  IF issueOk
             THEN [r1 EXCEPT !.ss.certificate_path = Some(CertPath(reg, SUBJECT)),
                             !.ss.certificate_ready = Some(TRUE),
                             !.page.msgs = @ \cup {"generated"}]
             ELSE [r1 EXCEPT !.halted = TRUE, !.page.msgs = @ \cup {"exception"}]
    ELSE [r EXCEPT !.page.warning = Some(IntSeconds(Remaining(r.ss, t))),
                   !.page.msgs = @ \cup {"warning"}]

DownloadLinkOfStoredPath(r) ==
    IF r.halted \/ r.ss.certificate_path = Absent THEN r
    ELSE [r EXCEPT !.page.link = Some(r.ss.certificate_path[1])]

\* lines 170-172: the download link
DownloadLink(r) ==
    IF r.halted \/ ~r.ss.certificate_ready[1] THEN r
    ELSE [r EXCEPT !.page.link = Some(r.ss.certificate_path[1])]

\* lines 132-172
WatchSection(r, clicked, regv, issueOk, t) ==
    IF r.halted \/ ~Truthy(r.ss.timer_started) THEN r
    ELSE LET student == r.ss.student[1]
             name == DictGet(student, "Name", DefaultName)
             reg == DictGet(student, "Reg_No", regv)
             r1 == Timer(r, t)
             r2 == [r1 EXCEPT !.ss.certificate_ready = InitKey(@),
                              !.shown = @ \cup {"watched"}]
             r3 == IF clicked THEN WatchedClicked(r2, name, reg, issueOk, t) ELSE r2
         IN  DownloadLink(r3)

----------------------------------------------------------------------------
\* The admin section

AnyPassword(p) == TRUE

\* line 178
AdminGranted(p) == p = ADMIN_PASSWORD

\* line 181: st.session_state.df = load_student_file()
Reload(r, loadRes) ==
    [r EXCEPT !.ss.df = Some(loadRes), !.loaded = Some(loadRes),
              !.page.msgs = @ \cup {LoadMsg(loadRes)}]

\* lines 175-181
AdminSection(r, checked, pwv, clicked, loadRes) ==
    IF r.halted THEN r
    ELSE LET r1 == [r EXCEPT !.shown = @ \cup {"admin"}]
         IN  IF ~checked THEN r1
             ELSE LET r2 == [r1 EXCEPT !.shown = @ \cup {"pw"}]
                  IN  IF ~AdminGranted(pwv) THEN r2
                      ELSE LET r3 == [r2 EXCEPT !.shown = @ \cup {"reload"},
                                                !.page.msgs = @ \cup {"admin_granted"}]
                           IN  IF clicked THEN Reload(r3, loadRes) ELSE r3

----------------------------------------------------------------------------
\* The whole script, run for event e with the widget values of that run

Script(e, regv, checked, pwv, loadRes, issueOk) ==
    LET r1 == StopIfNone(LoadOnce(StartRun, loadRes))
        r2 == LoginSection(r1, e = "login", regv, now)
        r3 == WatchSection(r2, e = "watched", regv, issueOk, now)
    IN  AdminSection(r3, checked, pwv, e = "reload", loadRes)

\* load_student_file is called by a first run and by a reload; create_certificate
\* by a click on the watched button
LoadChoices(e) ==
    IF session_state.df = Absent \/ e = "reload" THEN LoadResults ELSE {PyNone}

IssueChoices(e) == IF e = "watched" THEN BOOLEAN ELSE {TRUE}

\* A widget the run did not render loses its value (Streamlit drops the state of
\* a widget that is not drawn); the session state is kept.
Run(e, regv, checked, pwv) ==
    \E loadRes \in LoadChoices(e), issueOk \in IssueChoices(e) :
        \E r \in {Script(e, regv, checked, pwv, loadRes, issueOk)} :
            /\ session_state' = r.ss
            /\ page' = r.page
            /\ shown' = r.shown
            /\ reg_no' = IF "reg_no" \in r.shown THEN regv ELSE << >>
            /\ admin_checked' = IF "admin" \in r.shown THEN checked ELSE FALSE
            /\ pw' = IF "pw" \in r.shown THEN pwv ELSE ""
            /\ lookup' = r.lookup
            /\ issue' = r.issue
            /\ loaded' = r.loaded
            /\ login_at' = IF r.lookup # Absent /\ r.lookup[1].result # PyNone
                           THEN Some(now) ELSE login_at
            /\ ev' = e
            /\ prePhase' = Phase
            /\ now' = now
            /\ other' = other

----------------------------------------------------------------------------
\* The events of a client

\* the page is opened, or run again without any widget changing
Rerun == Run("rerun", reg_no, admin_checked, pw)

TypeRegNo ==
    /\ "reg_no" \in shown
    /\ \E s \in RegInputs : s # reg_no /\ Run("type_reg", s, admin_checked, pw)

ClickLogin == "login" \in shown /\ Run("login", reg_no, admin_checked, pw)

ClickWatched == "watched" \in shown /\ Run("watched", reg_no, admin_checked, pw)

ToggleAdmin == "admin" \in shown /\ Run("toggle_admin", reg_no, ~admin_checked, pw)

TypePw ==
    /\ "pw" \in shown
    /\ \E p \in PwInputs : p # pw /\ Run("type_pw", reg_no, admin_checked, p)

ClickReload == "reload" \in shown /\ Run("reload", reg_no, admin_checked, pw)

\* the wall clock advances
Tick ==
    /\ now < MaxNow
    /\ now' = now + 1
    /\ ev' = "tick"
    /\ prePhase' = Phase
    /\ lookup' = Absent
    /\ issue' = Absent
    /\ UNCHANGED << session_state, reg_no, admin_checked, pw, shown, page, loaded,
                    login_at, other >>

\* Streamlit keeps one st.session_state, one set of widget values and one page per
\* browser session; a session that has not run the script yet has none of them
NewClient ==
    [session_state |-> EmptySession, reg_no |-> << >>, admin_checked |-> FALSE,
     pw |-> "", shown |-> {}, page |-> EmptyPage, ev |-> "init",
     prePhase |-> "Anonymous", lookup |-> Absent, issue |-> Absent,
     login_at |-> Absent]

Init ==
    /\ session_state = EmptySession
    /\ reg_no = << >>
    /\ admin_checked = FALSE
    /\ pw = ""
    /\ shown = {}
    /\ page = EmptyPage
    /\ now = 0
    /\ ev = "init"
    /\ prePhase = "Anonymous"
    /\ lookup = Absent
    /\ issue = Absent
    /\ loaded = Absent
    /\ login_at = Absent
    /\ other = NewClient

Next ==
    \/ Rerun
    \/ TypeRegNo
    \/ ClickLogin
    \/ ClickWatched
    \/ ToggleAdmin
    \/ TypePw
    \/ ClickReload
    \/ Tick

Spec == Init /\ [][Next]_vars

----------------------------------------------------------------------------
\* Two clients of one server.  Each browser session runs the same script on its
\* own st.session_state; the student file and the clock are the server's.  The
\* model follows one client at a time: SwitchClient puts the other one in front,
\* with all that is its own, history included.
\* The clients log in and administer; the clock stands still.

SwitchClient ==
    /\ other' = [session_state |-> session_state, reg_no |-> reg_no,
                 admin_checked |-> admin_checked, pw |-> pw, shown |-> shown,
                 page |-> page, ev |-> ev, prePhase |-> prePhase,
                 lookup |-> lookup, issue |-> issue, login_at |-> login_at]
    /\ session_state' = other.session_state
    /\ reg_no' = other.reg_no
    /\ admin_checked' = other.admin_checked
    /\ pw' = other.pw
    /\ shown' = other.shown
    /\ page' = other.page
    /\ ev' = other.ev
    /\ prePhase' = other.prePhase
    /\ lookup' = other.lookup
    /\ issue' = other.issue
    /\ login_at' = other.login_at
    /\ UNCHANGED << now, loaded >>

NextShared ==
    \/ Rerun
    \/ TypeRegNo
    \/ ClickLogin
    \/ ToggleAdmin
    \/ TypePw
    \/ ClickReload
    \/ SwitchClient

SpecShared == Init /\ [][NextShared]_vars

----------------------------------------------------------------------------
\* find_student on its own: every short input against every short stored cell

Alphabet == {"A", "a", " ", "1"}
Strings(n) == UNION {[1..k -> Alphabet] : k \in 0..n}

\* the cells beside the first one: a value in two rows and two columns, or not
OtherCells ==
    { << << "1" >>, << "1" >>, << "a" >> >>,
      << << "a" >>, << "A", " " >>, << "1" >> >> }

FindRosters ==
    { [columns |-> << "Reg_No", "Name" >>,
       rows |-> << [Reg_No |-> v, Name |-> o[1]], [Reg_No |-> o[2], Name |-> o[3]] >>] :
      v \in Strings(MaxCellLen), o \in OtherCells }

InitFind ==
    /\ \E R \in FindRosters :
          /\ session_state = [EmptySession EXCEPT !.df = Some(Some(R))]
          /\ loaded = Some(Some(R))
    /\ reg_no \in Strings(MaxInputLen)
    /\ admin_checked = FALSE
    /\ pw = ""
    /\ shown = {"reg_no", "login", "admin"}
    /\ page = EmptyPage
    /\ now = 0
    /\ ev = "init"
    /\ prePhase = "Anonymous"
    /\ lookup = Absent
    /\ issue = Absent
    /\ login_at = Absent
    /\ other = NewClient

\* line 120: student = find_student(df, reg_no)
FindStudentCall ==
    /\ lookup = Absent
    /\ lookup' = Some([reg |-> reg_no,
                       result |-> find_student(session_state.df[1][1], reg_no)])
    /\ ev' = "find"
    /\ UNCHANGED << session_state, reg_no, admin_checked, pw, shown, page, now,
                    prePhase, issue, loaded, login_at, other >>

NextFind == FindStudentCall

SpecFind == InitFind /\ [][NextFind]_vars

----------------------------------------------------------------------------
\* Vocabulary of the properties

\* trim(lowercase(x)), as the specification words the match key
TrimLower(x) == Strip(Lower(x))

HasRoster(ss) == ss.df # Absent /\ ss.df[1] # PyNone
RosterOf(ss) == ss.df[1][1]

\* some cell of roster R, in any column, matches the text s
PresentIn(R, s) ==
    \E i \in 1..Len(R.rows), c \in 1..Len(R.columns) :
        TrimLower(R.rows[i][R.columns[c]]) = TrimLower(s)

\* the registration number a student record holds, whatever its column is called
RegistrationNumber(student) ==
    IF "Reg_No" \in DOMAIN student THEN student["Reg_No"] ELSE student["Roll"]

\* the watch duration, counted from the most recent successful login, has not elapsed
Premature == login_at = Absent \/ now - login_at[1] < DurationTicks

\* the step is a run that reached the watched button with the click on it
\* (a run stopped at line 115 for want of a roster draws no button)
ConfirmWatched == ev' = "watched" /\ "watched" \in shown'

\* the step is a successful login: the Login button ran a lookup that found a record
SuccessfulLogin == ev' = "login" /\ lookup' # Absent /\ lookup'[1].result # PyNone

----------------------------------------------------------------------------
\* C1: a confirmWatched made before the required duration has elapsed since the
\* most recent successful login never changes the phase, never invokes the
\* Certificate Issuer and exposes no certificate; time accumulated under an
\* earlier login does not count.
C1_PrematureConfirmHasNoEffect ==
    [][ (ev' = "watched" /\ Premature)
          => /\ Phase' = Phase
             /\ issue' = Absent
             /\ HandleOf(session_state') = HandleOf(session_state)
             /\ Phase' \in {"Anonymous", "Watching"} ]_vars

\* a premature confirmWatched under a second login, after the first login's
\* duration had elapsed and its certificate had been issued
C1_Witness ==
    /\ ev = "watched"
    /\ "warning" \in page.msgs
    /\ Phase = "Watching"
    /\ session_state.certificate_path # Absent
    /\ now >= DurationTicks

\* C2 (as claimed): every Certificate Issuer invocation receives the Name and the
\* registration number of the student record stored by the most recent successful
\* login, and the configured subject, whatever is typed into the input after that
\* login and whichever columns the roster has.
C2_IssuerGetsStoredStudent ==
    issue # Absent =>
        issue[1] = CertArgs(session_state.student[1]["Name"],
                            RegistrationNumber(session_state.student[1]),
                            SUBJECT)

\* C3 (as claimed): a confirmWatched while Certified does not invoke the
\* Certificate Issuer again and leaves the certificate handle unchanged.
C3_ConfirmIdempotentWhenCertified ==
    [][ (ConfirmWatched /\ Phase = "Certified")
          => /\ issue' = Absent
             /\ HandleOf(session_state') = HandleOf(session_state) ]_vars

\* C4: a successful login with another registration number while Certified puts
\* the session in Watching for the new student: student is the record found,
\* loginTimestamp is the time of this login, the certificate handle is cleared
\* and no certificate is exposed.
C4_ReloginResetsCertified ==
    [][ (SuccessfulLogin /\ Phase = "Certified"
            /\ lookup'[1].result # session_state.student)
          => /\ Phase' = "Watching"
             /\ session_state'.student = find_student(RosterOf(session_state), reg_no)
             /\ session_state'.student # session_state.student
             /\ session_state'.login_time = Some(now')
             /\ HandleOf(session_state') = Absent
             /\ page'.link = Absent ]_vars

\* Bob (B2) has just logged in over Jane's (A1) certified session
C4_Witness ==
    /\ ev = "login"
    /\ prePhase = "Certified"
    /\ Phase = "Watching"
    /\ session_state.student = Some(Roster1.rows[2])
    /\ session_state.certificate_path = Some(CertPath(A1, SUBJECT))
    /\ page.link = Absent

\* C5: from Anonymous, a login with a registration number (a non-empty text) that
\* is present in the roster moves the session to Watching and sets loginTimestamp
\* to the current time; with one that is absent the session stays Anonymous, with
\* no student and no loginTimestamp, and a not-found error is shown.
C5_LoginFromAnonymous ==
    [][ (ev' = "login" /\ Phase = "Anonymous" /\ HasRoster(session_state)
            /\ reg_no # << >>)
          => IF PresentIn(RosterOf(session_state), reg_no)
             THEN /\ Phase' = "Watching"
                  /\ session_state'.student # Absent
                  /\ session_state'.login_time = Some(now')
                  /\ "not_found" \notin page'.msgs
             ELSE /\ Phase' = "Anonymous"
                  /\ session_state'.student = Absent
                  /\ session_state'.login_time = Absent
                  /\ "not_found" \in page'.msgs ]_vars

\* a first login, typed with other case and surrounding blanks, has succeeded
C5_Witness ==
    /\ ev = "login"
    /\ prePhase = "Anonymous"
    /\ Phase = "Watching"
    /\ reg_no = << " ", "a", "1", " " >>
    /\ session_state.login_time = Some(now)

\* C6: without the configured password no reload is offered and no run changes
\* the roster; every login lookup is answered from the roster that the most
\* recent load returned, so after a reload never from the old one.
C6_AdminReload ==
    [][ /\ (session_state.df # Absent /\ ~(admin_checked' /\ pw' = ADMIN_PASSWORD))
              => session_state'.df = session_state.df
        /\ "reload" \in shown' => (admin_checked' /\ pw' = ADMIN_PASSWORD)
        /\ lookup' # Absent
              => /\ loaded # Absent /\ loaded[1] # PyNone
                 /\ lookup'[1].result = find_student(loaded[1][1], lookup'[1].reg) ]_vars

\* Bob logged in from the first roster; after a reload that returned the roster
\* without him, a login with his number is not found
C6_Witness ==
    /\ ev = "login"
    /\ session_state.student = Some(Roster1.rows[2])
    /\ session_state.df = Some(Some(Roster2))
    /\ lookup # Absent
    /\ lookup[1].reg = B2
    /\ lookup[1].result = PyNone

\* C7: student is set iff the phase is past Anonymous; loginTimestamp is set iff
\* the phase is Watching or later; the certificate handle is set iff the phase
\* is Certified.
C7_SessionInvariant ==
    /\ session_state.student # Absent <=> Phase # "Anonymous"
    /\ session_state.login_time # Absent
          <=> Phase \in {"Watching", "Eligible", "Certified"}
    /\ HandleOf(session_state) # Absent <=> Phase = "Certified"

C7_Witness ==
    /\ Phase = "Certified"
    /\ HandleOf(session_state) # Absent
    /\ page.link = HandleOf(session_state)

\* a confirmWatched on the state as it is, with the Issuer working, certifies
RetrySucceeds ==
    /\ "watched" \in shown
    /\ \E r \in {Script("watched", reg_no, admin_checked, pw, PyNone, TRUE)} :
          /\ PhaseOf(r.ss, now) = "Certified"
          /\ r.page.link = HandleOf(r.ss)

\* C8: when the Certificate Issuer fails during a confirmWatched made while
\* Eligible, the failure is shown, the session stays Eligible with no certificate
\* handle, student and loginTimestamp are unchanged, and a further confirmWatched
\* can succeed.
C8_IssuerFailureKeepsEligible ==
    [][ (ConfirmWatched /\ Phase = "Eligible" /\ issue' # Absent
            /\ "generated" \notin page'.msgs)
          => /\ "exception" \in page'.msgs
             /\ Phase' = "Eligible"
             /\ HandleOf(session_state') = Absent
             /\ page'.link = Absent
             /\ session_state'.student = session_state.student
             /\ session_state'.login_time = session_state.login_time
             /\ RetrySucceeds' ]_vars

C8_Witness ==
    /\ ev = "watched"
    /\ prePhase = "Eligible"
    /\ issue # Absent
    /\ "exception" \in page.msgs
    /\ Phase = "Eligible"

\* C9: find_student matches an input s against a stored value v exactly when
\* trim(lowercase(s)) = trim(lowercase(v)); it finds a record exactly when some
\* cell matches, and the record it returns has a matching cell.
C9_LookupIgnoresCaseAndBlanks ==
    lookup # Absent =>
        LET R == RosterOf(session_state)
            s == lookup[1].reg
            res == lookup[1].result
        IN  /\ \A i \in 1..Len(R.rows), c \in 1..Len(R.columns) :
                  (Series(R, R.columns[c])[i] = LookupKey(s))
                      <=> (TrimLower(s) = TrimLower(R.rows[i][R.columns[c]]))
            /\ res # PyNone <=> PresentIn(R, s)
            /\ res # PyNone =>
                  \E c \in 1..Len(R.columns) :
                      TrimLower(res[1][R.columns[c]]) = TrimLower(s)

\* " a " has been looked up and found the record stored as "A"
C9_Witness ==
    /\ lookup # Absent
    /\ lookup[1].reg = << " ", "a", " " >>
    /\ lookup[1].result # PyNone
    /\ lookup[1].result[1]["Reg_No"] = << "A" >>

\* C10: the watch gate is inclusive at the boundary and the warning reports the
\* exact shortfall: with requiredDurationSeconds = d, a confirmWatched at
\* elapsed = d - k seconds (1 <= k <= d) leaves the phase at Watching and reports
\* k seconds remaining; a confirmWatched at elapsed = d, the Issuer working,
\* moves the session to Certified, and the handle is the document the Issuer
\* returned for the logged-in student's name and the subject.
C10_GateBoundary ==
    [][ (ConfirmWatched /\ Phase \in {"Watching", "Eligible"})
          => LET el == now - login_at[1]
             IN  /\ \A k \in 1..VIDEO_DURATION :
                        el = (VIDEO_DURATION - k) * TicksPerSec
                            => /\ Phase' = "Watching"
                               /\ issue' = Absent
                               /\ page'.warning = Some(k)
                 /\ (el = DurationTicks /\ "exception" \notin page'.msgs)
                        => /\ Phase' = "Certified"
                           /\ issue' # Absent
                           /\ issue'[1].name = session_state.student[1]["Name"]
                           /\ issue'[1].subject = SUBJECT
                           /\ HandleOf(session_state')
                                = Some(CertPath(issue'[1].reg_no, SUBJECT))
                           /\ page'.link = HandleOf(session_state') ]_vars

\* a confirmWatched exactly at elapsed = d has certified the session
C10_Witness ==
    /\ ev = "watched"
    /\ prePhase = "Eligible"
    /\ Phase = "Certified"
    /\ now - login_at[1] = DurationTicks
    /\ page.link = HandleOf(session_state)
    /\ "generated" \in page.msgs

\* a confirmWatched one second before the boundary has been refused
C10_WitnessBelow ==
    /\ ev = "watched"
    /\ Phase = "Watching"
    /\ now - login_at[1] = DurationTicks - TicksPerSec
    /\ page.warning = Some(1)

----------------------------------------------------------------------------
\* the first run of the session, its load of the student file returning None
InitialLoadFails == session_state.df = Absent /\ session_state'.df = Some(PyNone)

\* the session has no roster, has never logged in and has no widget on its page
NeverLeftAnonymous ==
    /\ session_state.df = Some(PyNone)
    /\ login_at = Absent
    /\ session_state.student = Absent
    /\ shown = {}

\* C11: if the initial roster load fails, the session never leaves Anonymous: the
\* failing run draws no widget, and from then on no step changes the session
\* state, looks a student up, invokes the Certificate Issuer or exposes a
\* certificate.
C11_FailedInitialLoadStaysAnonymous ==
    [][ /\ InitialLoadFails
          => /\ NeverLeftAnonymous'
             /\ Phase' = "Anonymous"
             /\ "load_failed" \in page'.msgs
        /\ NeverLeftAnonymous
          => /\ NeverLeftAnonymous'
             /\ session_state' = session_state
             /\ Phase' = "Anonymous"
             /\ lookup' = Absent
             /\ issue' = Absent
             /\ page'.link = Absent ]_vars

\* the page run again, some time after the initial load failed: nothing is drawn
C11_Witness ==
    /\ NeverLeftAnonymous
    /\ ev = "rerun"
    /\ page = EmptyPage
    /\ loaded = Some(PyNone)
    /\ now > 0

----------------------------------------------------------------------------
\* the step is a script run of the client in front (not a change of client)
ClientRun == other' = other

\* the other client's last event was a granted admin reload that returned a
\* roster, and no load has returned another result since
OtherClientReloaded ==
    /\ other.ev = "reload"
    /\ "admin_granted" \in other.page.msgs
    /\ "loaded" \in other.page.msgs
    /\ other.session_state.df = loaded

\* C12 (as claimed): the roster is shared across client sessions: after a
\* correct-password admin reload made from one client, a later login of another
\* client is looked up in the new roster; and every lookup is made in one
\* complete roster.
C12_ReloadReachesOtherSessions ==
    [][ (ClientRun /\ lookup' # Absent)
          => /\ OtherClientReloaded
                => lookup'[1].result
                     = find_student(RosterOf(other.session_state), lookup'[1].reg)
             /\ \E R \in Rosters :
                   lookup'[1].result = find_student(R, lookup'[1].reg) ]_vars

----------------------------------------------------------------------------
\* the step is a run in which the admin reload was made (line 181 was reached)
AdminReloadMade ==
    /\ ev' = "reload"
    /\ "admin_granted" \in page'.msgs
    /\ page'.msgs \cap {"loaded", "load_failed"} # {}

\* C13 (as claimed): an admin reload, whatever it returns, leaves a logged-in
\* session as it was: student, loginTimestamp, phase and certificate handle are
\* unchanged, and once the duration has elapsed a confirmWatched still certifies
\* the session.
C13_ReloadLeavesSessionsAlone ==
    [][ (AdminReloadMade /\ Phase # "Anonymous")
          => /\ session_state'.student = session_state.student
             /\ session_state'.login_time = session_state.login_time
             /\ Phase' = Phase
             /\ HandleOf(session_state') = HandleOf(session_state)
             /\ Phase' = "Eligible" => RetrySucceeds' ]_vars

----------------------------------------------------------------------------
\* the step is a run for a click on Login that reached the button
LoginRun == ev' = "login" /\ "login" \in shown'

\* C14: a login whose registration number is not found changes nothing, in
\* whichever phase: the phase, the student, the loginTimestamp and the
\* certificate handle stay, the timer is not restarted and an existing
\* certificate stays exposed.  A login with an empty registration number makes no
\* lookup and changes nothing either.
C14_FailedLoginChangesNothing ==
    [][ LoginRun
          => /\ (reg_no' # << >> /\ ~PresentIn(RosterOf(session_state), reg_no'))
                => /\ lookup' = Some([reg |-> reg_no', result |-> PyNone])
                   /\ "not_found" \in page'.msgs
             /\ reg_no' = << >> => lookup' = Absent
             /\ (reg_no' = << >> \/ ~PresentIn(RosterOf(session_state), reg_no'))
                => /\ Phase' = Phase
                   /\ session_state'.student = session_state.student
                   /\ session_state'.login_time = session_state.login_time
                   /\ session_state'.timer_started = session_state.timer_started
                   /\ session_state'.certificate_path = session_state.certificate_path
                   /\ HandleOf(session_state') = HandleOf(session_state)
                   /\ page'.link = HandleOf(session_state)
                   /\ login_at' = login_at
                   /\ issue' = Absent ]_vars

\* a Certified session after a login that was not found: still Certified, its
\* certificate still exposed
C14_Witness ==
    /\ ev = "login"
    /\ "not_found" \in page.msgs
    /\ lookup # Absent /\ lookup[1].result = PyNone
    /\ prePhase = "Certified"
    /\ Phase = "Certified"
    /\ page.link = session_state.certificate_path
    /\ page.link # Absent

----------------------------------------------------------------------------
\* the step is a run that drew the timer and the watched button
Redraw == ev' # "tick" /\ "watched" \in shown'

\* C15: at every redraw and every confirmWatched the stored video_done flag, which
\* gates the issuance, equals (now - loginTimestamp >= requiredDurationSeconds)
\* for the current login; it is never a value left by an earlier redraw or an
\* earlier login.
C15_StoredFlagIsEligibility ==
    [][ Redraw
          => /\ session_state'.login_time = login_at'
             /\ session_state'.video_done
                  = Some(now' - login_at'[1] >= DurationTicks)
             /\ ConfirmWatched
                  => (issue' # Absent <=> now' - login_at'[1] >= DurationTicks) ]_vars

\* a redraw at the moment the duration of a second, later login has elapsed
C15_Witness ==
    /\ ev = "rerun"
    /\ "completed" \in page.msgs
    /\ session_state.video_done = Some(TRUE)
    /\ login_at # Absent
    /\ login_at[1] >= DurationTicks
    /\ now - login_at[1] = DurationTicks

----------------------------------------------------------------------------
\* the cell of row i in the c-th column of roster R matches the text s
CellMatches(R, i, c, s) == TrimLower(R.rows[i][R.columns[c]]) = TrimLower(s)

\* the rows of R with a matching cell in any column
MatchingRows(R, s) ==
    {i \in 1..Len(R.rows) : \E c \in 1..Len(R.columns) : CellMatches(R, i, c, s)}

\* C16 (as claimed): when the value matches cells of more than one row, the record
\* returned by find_student is the earliest row of the roster that has a matching
\* cell in any column.
C16_EarliestMatchingRow ==
    (lookup # Absent /\ lookup[1].result # PyNone) =>
        LET R == RosterOf(session_state)
            s == lookup[1].reg
        IN  \E i \in MatchingRows(R, s) :
                /\ \A j \in MatchingRows(R, s) : i <= j
                /\ lookup[1].result = Some(R.rows[i])

\* C16 (amended): the columns are searched in column order and the rows within a
\* column in roster order: the record returned is the earliest row that matches
\* in the first column that has a matching cell.
C16_FirstColumnThenFirstRow ==
    (lookup # Absent /\ lookup[1].result # PyNone) =>
        LET R == RosterOf(session_state)
            s == lookup[1].reg
        IN  \E c \in 1..Len(R.columns), i \in 1..Len(R.rows) :
                /\ CellMatches(R, i, c, s)
                /\ \A d \in 1..(c - 1), j \in 1..Len(R.rows) : ~CellMatches(R, j, d, s)
                /\ \A j \in 1..(i - 1) : ~CellMatches(R, j, c, s)
                /\ lookup[1].result = Some(R.rows[i])

\* the value matches the first row in the second column and the second row in
\* the first column: the second row has been returned
C16_Witness ==
    /\ lookup # Absent
    /\ CellMatches(RosterOf(session_state), 1, 2, lookup[1].reg)
    /\ ~CellMatches(RosterOf(session_state), 1, 1, lookup[1].reg)
    /\ CellMatches(RosterOf(session_state), 2, 1, lookup[1].reg)
    /\ lookup[1].result = Some(RosterOf(session_state).rows[2])
    /\ RosterOf(session_state).rows[2] # RosterOf(session_state).rows[1]

----------------------------------------------------------------------------
\* the Issuer was invoked in the step and returned the handle h
IssuedNow(h) ==
    /\ issue' # Absent
    /\ h = Some(CertPath(issue'[1].reg_no, issue'[1].subject))

\* C17: whenever a certificate download is exposed, it is the session's handle,
\* the duration of the current login has elapsed, and the handle was produced by
\* an Issuer invocation of the current login: in every step the session's handle
\* is either one the Issuer returned in that step, after the duration of the
\* most recent successful login, or the handle the session already had with no
\* login in between.  The path stored under an earlier login is never exposed.
C17_ExposedHandleIsOfCurrentLogin ==
    [][ /\ HandleOf(session_state') # Absent
          => /\ login_at' # Absent
             /\ now' - login_at'[1] >= DurationTicks
             /\ \/ IssuedNow(HandleOf(session_state')) /\ login_at' = login_at
                \/ /\ HandleOf(session_state') = HandleOf(session_state)
                   /\ login_at' = login_at
        /\ page'.link # Absent => page'.link = HandleOf(session_state')
        /\ SuccessfulLogin
          => /\ page'.link = Absent
             /\ session_state'.certificate_path = session_state.certificate_path ]_vars

\* a certificate issued and exposed under a login made after the duration of an
\* earlier login had elapsed
C17_Witness ==
    /\ ev = "watched"
    /\ issue # Absent
    /\ page.link = Some(CertPath(issue[1].reg_no, SUBJECT))
    /\ page.link = HandleOf(session_state)
    /\ login_at # Absent
    /\ login_at[1] >= DurationTicks
    /\ now - login_at[1] >= DurationTicks

\* after a new login the path of the earlier login's certificate is still stored
\* and is not exposed
C17_WitnessOldPath ==
    /\ ev = "rerun"
    /\ Phase = "Watching"
    /\ session_state.certificate_path # Absent
    /\ page.link = Absent
    /\ "time_remaining" \in page.msgs

----------------------------------------------------------------------------
\* the session's roster is unavailable: the last load of the student file failed
RosterUnavailable == session_state.df = Some(PyNone)

\* C18: a roster load failure is absorbing for the session: once the roster is
\* unavailable, by the initial load or by a failed admin reload, no step loads the
\* student file again or changes the roster or the session state, a click on the
\* reload button with the correct password included; every run draws nothing.
C18_LoadFailureIsAbsorbing ==
    [][ RosterUnavailable
          => /\ session_state' = session_state
             /\ loaded' = loaded
             /\ login_at' = login_at
             /\ ev' # "tick" => (shown' = {} /\ page' = EmptyPage) ]_vars

\* a click on the reload button, drawn by the run whose reload failed, with the
\* correct password typed, in a logged-in session: the run stopped before it
C18_Witness ==
    /\ RosterUnavailable
    /\ ev = "reload"
    /\ page = EmptyPage
    /\ shown = {}
    /\ session_state.student # Absent
    /\ loaded = Some(PyNone)

====
